---- MODULE Spec2Model ----
(***************************************************************************)
(* dcflib: three command line tools.                                       *)
(*   create_pageview_report.py  rolling table of page views per thread URL *)
(*   scraping.py                one JSON record per thread URL             *)
(*   process_dcf_json.py        keyword classifier and de-duplicated       *)
(*                              cumulative archive                         *)
(* Strings that the programs order, strip or filter are tuples (of code    *)
(* points or of one-character strings); Python's str comparison is         *)
(* LexLess.  A pandas NaN cell is the integer NaN; view counts are >= 0.   *)
(***************************************************************************)
EXTENDS Integers, Sequences, FiniteSets, TLC

VARIABLES
    tool,           \* which of the three programs this process runs
    pc,             \* position of the process: idle, scrape, fetch, exited
    argv,           \* sys.argv[1:]
    exit_code,      \* exit status of the last finished process
    printed,        \* kind of the last message printed
    \* ---- create_pageview_report.py
    pv_runs,        \* runs of the tool started so far
    tsv,            \* dcf_pageviews.tsv on disk
    urls,           \* the set of URLs read from the list file
    load_kind,      \* what line 77 found on disk in this run
    loaded,         \* the DataFrame as read at line 77-81 of this run
    df,             \* the DataFrame being updated
    timestamp_col,  \* the capture label of this run
    queue,          \* the URLs of sorted(list(urls)) not yet processed
    scraped,        \* url -> result of scrape_title_and_views, this run
    wrote,          \* TRUE when line 135 of this run wrote the table
    \* ---- scrape_title_and_views on its own
    sv_resp, sv_data, sv_pc,
    \* ---- process_dcf_json.py
    archive,          \* jsonfiles/dcfcontents_full_all.json on disk
    dated,            \* jsonfiles/dcfcontents_full_<date>.json on disk
    processed_items,  \* processed_items of the last run
    new_items_count,  \* new_items_count of the last run
    appended,         \* how many records at the end of the archive the runs appended
    \* ---- scraping.py
    sc_lines,         \* the lines of the input file of this run
    sc_queue,         \* the entries of urls not yet fetched
    sc_resps,         \* what requests.get gave for each URL fetched, in order
    sc_all_data,      \* all_data of main
    sc_out,           \* the JSON file written by the last run, if any
    \* ---- classify_by_keyword on its own
    cl_text, cl_category, cl_pc

pvVars == <<pv_runs, tsv, urls, load_kind, loaded, df, timestamp_col, queue, scraped, wrote>>
svVars == <<sv_resp, sv_data, sv_pc>>
procVars == <<tool, pc, argv, exit_code, printed>>
prVars == <<archive, dated, processed_items, new_items_count, appended>>
clVars == <<cl_text, cl_category, cl_pc>>
scVars == <<sc_lines, sc_queue, sc_resps, sc_all_data, sc_out>>
vars == <<procVars, pvVars, svVars, prVars, scVars, clVars>>
notPvVars == <<svVars, prVars, scVars, clVars>>

\* ------------------------------------------------------------------ bounds
MaxRuns == 1          \* runs of create_pageview_report in one behaviour
MaxTextLen == 2       \* characters of a view-count text
MaxLoadedCols == 3    \* timestamp columns of a persisted table at Init
MaxTokens == 3        \* words of a text given to classify_by_keyword
MaxBatch == 2         \* items of an input JSON list
MaxArchive == 3       \* records of the cumulative archive
MaxLines == 3         \* lines of the input file of scraping.py

\* ----------------------------------------------------------- Python helpers
RECURSIVE LexLess(_, _)
\* a < b for two Python strings given as tuples of code points
LexLess(a, b) ==
    IF a = <<>> THEN b # <<>>
    ELSE IF b = <<>> THEN FALSE
    ELSE IF a[1] # b[1] THEN a[1] < b[1]
    ELSE LexLess(Tail(a), Tail(b))

RECURSIVE sorted(_)
\* sorted(S) of a set of strings, ascending
sorted(S) ==
    IF S = {} THEN <<>>
    ELSE LET m == CHOOSE x \in S : \A y \in S \ {x} : LexLess(x, y)
         IN  <<m>> \o sorted(S \ {m})

Range(s) == {s[i] : i \in 1..Len(s)}

\* ------------------------------------------------ create_pageview_report.py
NaN == -1
MAX_COLS == 2

\* two thread URLs that url_pattern matches, as the code points that tell
\* them apart
URL1 == <<1>>
URL2 == <<2>>
URLs == {URL1, URL2}

\* datetime.now(), in minutes
Clock == {8, 9, 10}
\* strftime('%Y-%m-%d_%H-%M'): fixed width, zero padded (its last field here)
strftime(now) == <<now \div 10, now % 10>>
\* column labels a persisted table may carry: "08", "09", "10" and the
\* unpadded "9", which sorts after "10" as a string
ColLabels == {strftime(t) : t \in Clock} \cup {<<9>>}

TitleUnknown == <<"?">>
OldTitle == <<"O">>

EmptyDF == [urls |-> {}, cols |-> {}, title |-> <<>>, cell |-> <<>>]

\* ---- scrape_title_and_views
AsciiDigits == {"0", "1", "2"}
\* "sup2" is U+00B2: str.isdigit() is True for it and int() rejects it
Chars == AsciiDigits \cup {"v", "sup2"}
isdigit(c) == c \in AsciiDigits \cup {"sup2"}
DigitVal(c) == CASE c = "0" -> 0 [] c = "1" -> 1 [] c = "2" -> 2

RECURSIVE filter_isdigit(_)
\* ''.join(filter(str.isdigit, text))
filter_isdigit(text) ==
    IF text = <<>> THEN <<>>
    ELSE IF isdigit(Head(text)) THEN <<Head(text)>> \o filter_isdigit(Tail(text))
    ELSE filter_isdigit(Tail(text))

\* int(s) raises ValueError
int_raises(s) == s = <<>> \/ \E i \in 1..Len(s) : s[i] \notin AsciiDigits

RECURSIVE int(_)
\* int(s) for a string of ASCII digits
int(s) == IF s = <<>> THEN 0 ELSE 10 * int(SubSeq(s, 1, Len(s) - 1)) + DigitVal(s[Len(s)])

RECURSIVE split(_)
\* text.split(): the whitespace-separated words of text
split(text) ==
    IF text = <<>> THEN <<>>
    ELSE IF Head(text) = " " THEN split(Tail(text))
    ELSE LET rest == split(Tail(text))
         IN  IF Len(text) > 1 /\ text[2] # " "
             THEN <<<<Head(text)>> \o Head(rest)>> \o Tail(rest)
             ELSE <<<<Head(text)>>>> \o rest

RECURSIVE join(_)
\* ' '.join(words)
join(words) ==
    IF words = <<>> THEN <<>>
    ELSE IF Len(words) = 1 THEN words[1]
    ELSE words[1] \o <<" ">> \o join(Tail(words))

None == [ok |-> FALSE, url |-> <<>>, title |-> <<>>, views |-> NaN]

\* view_count_text of lines 29-35
view_count_text(resp) ==
    IF resp.has_container /\ resp.has_element
    THEN filter_isdigit(resp.view_text)
    ELSE <<"0">>

scrape_title_and_views(url, resp) ==
    IF resp.net # "ok" THEN None                           \* RequestException
    ELSE LET title == IF resp.has_title THEN join(split(resp.title_text))
                      ELSE TitleUnknown
             text == view_count_text(resp)
         IN  IF int_raises(text) THEN None                  \* except Exception
             ELSE [ok |-> TRUE, url |-> url, title |-> title, views |-> int(text)]

\* what requests.get and the page can be
FailedResponse(net) ==
    [net |-> net, has_title |-> FALSE, title_text |-> <<>>,
     has_container |-> FALSE, has_element |-> FALSE, view_text |-> <<>>]
Page(has_title, title_text, has_container, has_element, view_text) ==
    [net |-> "ok", has_title |-> has_title, title_text |-> title_text,
     has_container |-> has_container, has_element |-> has_element,
     view_text |-> view_text]

BoundedSeq(S, n) == UNION {[1..k -> S] : k \in 0..n}

\* a page: its title element, if any, and its view-count elements, if any
Pages ==
    LET titles == {Page(FALSE, <<>>, FALSE, FALSE, <<>>)}
                  \cup {Page(TRUE, t, FALSE, FALSE, <<>>) :
                          t \in {<<"A">>, <<"A", " ", " ", "B">>}}
    IN  {[p EXCEPT !.has_container = c] : p \in titles, c \in BOOLEAN}
        \cup {[p EXCEPT !.has_container = TRUE, !.has_element = TRUE, !.view_text = v] :
                p \in titles, v \in BoundedSeq(Chars, MaxTextLen)}

Responses == {FailedResponse(n) : n \in {"timeout", "http404"}} \cup Pages

\* the responses the pageview runs draw from
PvResponses ==
    { FailedResponse("timeout"),
      Page(TRUE, <<"A", " ", " ", "B">>, TRUE, TRUE, <<"2", "v">>),
      Page(FALSE, <<>>, FALSE, FALSE, <<>>),
      Page(TRUE, <<"A">>, TRUE, TRUE, <<"v">>) }

\* ---- the URL list file (lines 57-68)
Junk == <<0>>
\* the first match of url_pattern in a line, given as its words
RECURSIVE url_search(_)
url_search(line) ==
    IF line = <<>> THEN <<>>
    ELSE IF Head(line) \in URLs THEN Head(line)
    ELSE url_search(Tail(line))

\* urls of lines 59-65
read_urls(lines) ==
    {url_search(lines[i]) : i \in {j \in 1..Len(lines) : url_search(lines[j]) # <<>>}}

PvContents ==
    { << <<URL2>>, <<Junk>>, <<Junk, URL1>>, <<URL2>> >>,
      << <<URL1>> >>,
      << <<URL2>> >>,
      << <<Junk>> >> }

\* sys.argv[1:]: no argument, an existing file, a file that does not exist
Argvs == {<<>>, <<"input">>, <<"absent">>}

\* ---- the DataFrame
\* df.loc[url, 'title'] = title (line 92): the row is added when it is new
loc_set_title(d, url, title) ==
    [urls  |-> d.urls \cup {url},
     cols  |-> d.cols,
     title |-> [u \in d.urls \cup {url} |-> IF u = url THEN title ELSE d.title[u]],
     cell  |-> [u \in d.urls \cup {url} |->
                  IF u \in d.urls THEN d.cell[u] ELSE [c \in d.cols |-> NaN]]]

\* the assignment written as df[col] = views: every row gets the value
loc_set_cell_whole_column(d, url, col, views) ==
    [urls  |-> d.urls,
     cols  |-> d.cols \cup {col},
     title |-> d.title,
     cell  |-> [u \in d.urls |-> [c \in d.cols \cup {col} |->
                  IF c = col THEN views ELSE d.cell[u][c]]]]

\* df.loc[url, col] = views (line 93): the column is added when it is new
loc_set_cell(d, url, col, views) ==
    [urls  |-> d.urls,
     cols  |-> d.cols \cup {col},
     title |-> d.title,
     cell  |-> [u \in d.urls |-> [c \in d.cols \cup {col} |->
                  IF u = url /\ c = col THEN views
                  ELSE IF c \in d.cols THEN d.cell[u][c] ELSE NaN]]]

\* lines 90-93
merge(d, data, col) ==
    IF data.ok
    THEN loc_set_cell(loc_set_title(d, data.url, data.title), data.url, col, data.views)
    ELSE d

\* pd.to_numeric(errors='coerce').astype('Int64') of one cell (line 100): what
\* is not a number becomes NaN.  The cells of the persisted tables drawn here
\* are integers or empty, which the coercion leaves as they are.
to_numeric(v) == IF v >= 0 THEN v ELSE NaN

normalize(d) ==
    [d EXCEPT !.cell = [u \in d.urls |-> [c \in d.cols |-> to_numeric(d.cell[u][c])]]]

restrict_rows(d, keep) ==
    [urls  |-> keep,
     cols  |-> d.cols,
     title |-> [u \in keep |-> d.title[u]],
     cell  |-> [u \in keep |-> d.cell[u]]]

\* lines 104-108: dropna(subset=time_cols, how='all') when there is a column
dropna(d) ==
    IF d.cols # {}
    THEN restrict_rows(d, {u \in d.urls : \E c \in d.cols : d.cell[u][c] # NaN})
    ELSE d

\* the slice taken from the wrong end: time_cols[-num_to_drop:]
cols_to_drop_newest(d) ==
    LET time_cols == sorted(d.cols)
    IN  IF Len(time_cols) > MAX_COLS
        THEN Range(SubSeq(time_cols, MAX_COLS + 1, Len(time_cols)))
        ELSE {}

\* lines 115-121: the labels to drop
cols_to_drop(d) ==
    LET time_cols == sorted(d.cols)
    IN  IF Len(time_cols) > MAX_COLS
        THEN Range(SubSeq(time_cols, 1, Len(time_cols) - MAX_COLS))
        ELSE {}

\* line 123
drop_columns(d, drop) ==
    [urls  |-> d.urls,
     cols  |-> d.cols \ drop,
     title |-> d.title,
     cell  |-> [u \in d.urls |-> [c \in d.cols \ drop |-> d.cell[u][c]]]]

\* lines 95-123, in the order of the code
finish(d) ==
    LET n == normalize(d)
        r == dropna(n)
    IN  drop_columns(r, cols_to_drop(r))

\* ---- the persisted table
File(kind, table) == [kind |-> kind, table |-> table]

InitTables ==
    UNION { { [urls |-> U, cols |-> C, title |-> [u \in U |-> OldTitle], cell |-> m] :
                m \in [U -> [C -> {NaN, 1}]] } :
            U \in SUBSET URLs,
            C \in {X \in SUBSET ColLabels : Cardinality(X) <= MaxLoadedCols} }

InitFiles ==
    {File(k, EmptyDF) : k \in {"missing", "empty", "malformed", "nourl"}}
    \cup {File("table", t) : t \in InitTables}

\* ---- the process
CanStart == pc \in {"idle", "exited"}

Exit(code, msg) ==
    /\ pc' = "exited"
    /\ exit_code' = code
    /\ printed' = msg

PvReset ==
    /\ urls' = {}
    /\ load_kind' = "none"
    /\ loaded' = EmptyDF
    /\ df' = EmptyDF
    /\ timestamp_col' = <<>>
    /\ queue' = <<>>
    /\ scraped' = <<>>
    /\ wrote' = FALSE

\* main, lines 50-85: arguments, URL list, load of the persisted table
PvStart ==
    /\ tool = "create_pageview_report"
    /\ CanStart
    /\ pv_runs < MaxRuns
    /\ pv_runs' = pv_runs + 1
    /\ \E a \in Argvs, lines \in PvContents, now \in Clock :
        /\ argv' = a
        /\ \/ /\ Len(a) < 1
              /\ Exit(1, "usage")
              /\ PvReset
           \/ /\ Len(a) >= 1 /\ a[1] = "absent"
              /\ Exit(1, "not_found")
              /\ PvReset
           \/ /\ Len(a) >= 1 /\ a[1] # "absent"
              /\ read_urls(lines) = {}
              /\ Exit(0, "no_urls")
              /\ PvReset
           \/ /\ Len(a) >= 1 /\ a[1] # "absent"
              /\ read_urls(lines) # {}
              /\ tsv.kind \in {"malformed", "nourl"}  \* ParserError, ValueError
              /\ Exit(1, "traceback")
              /\ urls' = read_urls(lines)
              /\ load_kind' = tsv.kind
              /\ loaded' = EmptyDF
              /\ df' = EmptyDF
              /\ timestamp_col' = <<>>
              /\ queue' = <<>>
              /\ scraped' = <<>>
              /\ wrote' = FALSE
           \/ /\ Len(a) >= 1 /\ a[1] # "absent"
              /\ read_urls(lines) # {}
              /\ tsv.kind \in {"missing", "empty", "table"}
              /\ LET d == IF tsv.kind = "table" THEN tsv.table ELSE EmptyDF
                 IN  /\ loaded' = d
                     /\ df' = d
              /\ urls' = read_urls(lines)
              /\ load_kind' = tsv.kind
              /\ timestamp_col' = strftime(now)
              /\ queue' = sorted(read_urls(lines))
              /\ scraped' = <<>>
              /\ wrote' = FALSE
              /\ pc' = "scrape"
              /\ printed' = "count"
              /\ UNCHANGED exit_code
    /\ UNCHANGED <<tool, tsv, notPvVars>>

\* one turn of the loop of lines 87-93
PvScrape ==
    /\ tool = "create_pageview_report"
    /\ pc = "scrape"
    /\ queue # <<>>
    /\ \E resp \in PvResponses :
        LET url == Head(queue)
            data == scrape_title_and_views(url, resp)
        IN  /\ df' = merge(df, data, timestamp_col)
            /\ scraped' = [u \in DOMAIN scraped \cup {url} |->
                             IF u = url THEN data ELSE scraped[u]]
            /\ printed' = IF data.ok THEN "processing" ELSE "scrape_error"
    /\ queue' = Tail(queue)
    /\ UNCHANGED <<tool, pc, argv, exit_code, pv_runs, tsv, urls, load_kind, loaded,
                   timestamp_col, wrote, notPvVars>>

\* lines 95-138: normalise, prune rows, prune columns, write
PvFinish ==
    /\ tool = "create_pageview_report"
    /\ pc = "scrape"
    /\ queue = <<>>
    /\ df' = finish(df)
    /\ \/ /\ tsv' = File("table", finish(df))
          /\ wrote' = TRUE
          /\ Exit(0, "saved")
       \/ /\ UNCHANGED tsv                   \* to_csv raised: lines 137-138
          /\ wrote' = FALSE
          /\ Exit(0, "write_error")
    /\ UNCHANGED <<tool, argv, pv_runs, urls, load_kind, loaded, timestamp_col, queue,
                   scraped, notPvVars>>

\* ---------------------------------------------------- process_dcf_json.py
\* The keywords of lines 12-15, romanised; a text is a tuple of words, a "\n"
\* word between its parts, and a keyword matches a word as a whole.
spec_kws == {"shiyou", "shousai", "supekku", "kinou"}
config_kws == {"kousei", "settei", "sapooto", "besutopurakutisu", "insutooru",
               "dounyuu", "kouchiku"}
ops_kws == {"houhou", "how-to", "tejun", "sousa", "jikkou", "komando"}
bf_kws == {"mondai", "eraa", "kaiketsu", "shippai", "toraburu", "fuguai",
           "shuusei", "break", "fix"}

\* re.IGNORECASE: the words that are not lower case already
lower(w) == CASE w = "HOW-TO" -> "how-to" [] w = "Fix" -> "fix" [] OTHER -> w

\* len(re.findall(kws, text, re.IGNORECASE))
findall_len(kws, text) == Cardinality({i \in 1..Len(text) : lower(text[i]) \in kws})

\* the keys of scores, in insertion order (lines 18-23)
Categories == <<"Specifications", "Configurations", "Operations", "Break&Fix">>

scores_of(text) ==
    [c \in Range(Categories) |->
        CASE c = "Specifications" -> findall_len(spec_kws, text)
          [] c = "Configurations" -> findall_len(config_kws, text)
          [] c = "Operations"     -> findall_len(ops_kws, text)
          [] c = "Break&Fix"      -> findall_len(bf_kws, text)]

RECURSIVE max_last(_, _, _)
\* a max that keeps the last of the greatest keys
max_last(keys, scores, best) ==
    IF keys = <<>> THEN best
    ELSE max_last(Tail(keys), scores,
                  IF scores[Head(keys)] >= scores[best] THEN Head(keys) ELSE best)

RECURSIVE max_by(_, _, _)
\* max(scores, key=scores.get): the first of the greatest keys
max_by(keys, scores, best) ==
    IF keys = <<>> THEN best
    ELSE max_by(Tail(keys), scores,
                IF scores[Head(keys)] > scores[best] THEN Head(keys) ELSE best)

classify_by_keyword(text) ==
    LET scores == scores_of(text)
    IN  IF \A c \in DOMAIN scores : scores[c] = 0
        THEN "Operations"
        ELSE max_by(Tail(Categories), scores, Head(Categories))

Words == {"shiyou", "settei", "houhou", "HOW-TO", "Fix", "x"}

\* ---- items: a dict is a function on its keys
\* item.get(k) is truthy
truthy(item, k) == k \in DOMAIN item /\ item[k] # <<>>

\* a.get(k) == b[k], for b[k] truthy
get_eq(a, b, k) == k \in DOMAIN a /\ a[k] = b[k]

RECURSIVE comment_bodies(_)
\* lines 95-97
comment_bodies(comments) ==
    IF comments = <<>> THEN <<>>
    ELSE (IF truthy(Head(comments), "body") THEN <<Head(comments)["body"]>> ELSE <<>>)
         \o comment_bodies(Tail(comments))

\* text_parts of lines 89-97
text_parts(item) ==
    (IF truthy(item, "title") THEN <<item["title"]>> ELSE <<>>)
    \o (IF truthy(item, "init_body") THEN <<item["init_body"]>> ELSE <<>>)
    \o (IF "comments" \in DOMAIN item THEN comment_bodies(item["comments"]) ELSE <<>>)

RECURSIVE join_lines(_)
\* "\n".join(text_parts)
join_lines(parts) ==
    IF parts = <<>> THEN <<>>
    ELSE IF Len(parts) = 1 THEN parts[1]
    ELSE parts[1] \o <<"\n">> \o join_lines(Tail(parts))

full_text(item) == join_lines(text_parts(item))

\* lines 105-110; short_summary and summary, two truncations of the text
\* that nothing else reads, are left out of the item
enrich(item) ==
    [k \in DOMAIN item \cup {"thread_type"} |->
        IF k = "thread_type" THEN classify_by_keyword(full_text(item)) ELSE item[k]]

RECURSIVE process_items(_)
\* the loop of lines 87-111
process_items(items) ==
    IF items = <<>> THEN <<>>
    ELSE (IF full_text(Head(items)) = <<>> THEN <<>> ELSE <<enrich(Head(items))>>)
         \o process_items(Tail(items))

\* new_item is not a duplicate (lines 148-153)
is_new(all_data, new_item) ==
    ~ ( /\ truthy(new_item, "url")
        /\ truthy(new_item, "title")
        /\ \E i \in 1..Len(all_data) :
              /\ get_eq(all_data[i], new_item, "url")
              /\ get_eq(all_data[i], new_item, "title") )

RECURSIVE append_new(_, _, _)
\* the loop of lines 146-156
append_new(all_data, items, count) ==
    IF items = <<>> THEN [all_data |-> all_data, new_items_count |-> count]
    ELSE IF is_new(all_data, Head(items))
         THEN append_new(Append(all_data, Head(items)), Tail(items), count + 1)
         ELSE append_new(all_data, Tail(items), count)

Archive(kind, data) == [kind |-> kind, data |-> data]

\* all_data of lines 131-143
load_archive(a) == IF a.kind = "list" THEN a.data ELSE <<>>

ItemA == [url |-> URL1, title |-> <<"settei">>, init_body |-> <<"houhou", "x">>]
ItemB == [url |-> URL1, title |-> <<"x">>,
          comments |-> << [author |-> <<"x">>, body |-> <<"Fix">>], [author |-> <<"x">>] >>]
\* no url key
ItemK == [title |-> <<"shiyou">>, init_body |-> <<"x">>]
\* an empty title
ItemE == [url |-> URL2, title |-> <<>>, init_body |-> <<"x">>]
\* no text at all
ItemZ == [url |-> URL2, comments |-> <<>>]
Items == {ItemA, ItemB, ItemK, ItemE, ItemZ}

\* the input file: data_in of line 71
PrInputs ==
    {[kind |-> "invalid", data |-> <<>>]}
    \cup {[kind |-> "object", data |-> <<i>>] : i \in Items}
    \cup {[kind |-> "list", data |-> b] : b \in BoundedSeq(Items, MaxBatch)}

InitArchives ==
    {Archive(k, <<>>) : k \in {"missing", "empty", "corrupt", "nonlist"}}
    \cup {Archive("list", d) :
            d \in {<<>>, <<enrich(ItemA)>>, <<enrich(ItemK)>>,
                   <<enrich(ItemA), enrich(ItemA)>>}}

PrNoOutput ==
    /\ processed_items' = <<>>
    /\ new_items_count' = 0
    /\ UNCHANGED <<archive, dated, appended>>

\* main and process_json_file
PrRun ==
    /\ tool = "process_dcf_json"
    /\ CanStart
    /\ \E a \in Argvs, data_in \in PrInputs :
        /\ argv' = a
        /\ \/ /\ Len(a) # 1                      \* parser.parse_args() exits
              /\ Exit(2, "usage")
              /\ PrNoOutput
           \/ /\ Len(a) = 1 /\ a[1] = "absent"   \* lines 73-75
              /\ Exit(0, "not_found")
              /\ PrNoOutput
           \/ /\ Len(a) = 1 /\ a[1] # "absent"   \* lines 76-78
              /\ data_in.kind = "invalid"
              /\ Exit(0, "bad_json")
              /\ PrNoOutput
           \/ /\ Len(a) = 1 /\ a[1] # "absent"   \* lines 113-115
              /\ data_in.kind # "invalid"
              /\ process_items(data_in.data) = <<>>
              /\ Exit(0, "nothing")
              /\ PrNoOutput
           \/ /\ Len(a) = 1 /\ a[1] # "absent"
              /\ data_in.kind # "invalid"
              /\ process_items(data_in.data) # <<>>
              /\ LET items == process_items(data_in.data)
                     all_data == load_archive(archive)
                     r == append_new(all_data, items, 0)
                 IN  /\ Len(all_data) + Len(items) <= MaxArchive
                     /\ processed_items' = items
                     /\ dated' = items
                     /\ new_items_count' = r.new_items_count
                     /\ IF r.new_items_count > 0
                        THEN /\ archive' = Archive("list", r.all_data)
                             /\ appended' = (IF archive.kind = "list" THEN appended ELSE 0)
                                            + r.new_items_count
                             /\ Exit(0, "appended")
                        ELSE /\ UNCHANGED <<archive, appended>>
                             /\ Exit(0, "no_new")
    /\ UNCHANGED <<tool, pvVars, svVars, scVars, clVars>>

\* ---- classify_by_keyword applied to one text
ClApply ==
    /\ cl_pc = "idle"
    /\ cl_category' = classify_by_keyword(cl_text)
    /\ cl_pc' = "done"
    /\ UNCHANGED <<cl_text, procVars, pvVars, svVars, prVars, scVars>>

\* ------------------------------------------------------------ scraping.py
\* A line of the input file is a tuple of words and whitespace characters.
Whitespace == {" ", "\n"}
HttpWords == {"http://a", "https://b"}
base_url == "https://www.dell.com/community/en/conversations/x//"

RECURSIVE lstrip(_)
lstrip(line) ==
    IF line # <<>> /\ Head(line) \in Whitespace THEN lstrip(Tail(line)) ELSE line

RECURSIVE rstrip(_)
rstrip(line) ==
    IF line # <<>> /\ line[Len(line)] \in Whitespace
    THEN rstrip(SubSeq(line, 1, Len(line) - 1))
    ELSE line

\* line.strip()
strip(line) == rstrip(lstrip(line))

\* line.startswith("http")
startswith_http(line) == line # <<>> /\ Head(line) \in HttpWords

RECURSIVE read_lines(_)
\* urls of lines 131-138
read_lines(lines) ==
    IF lines = <<>> THEN <<>>
    ELSE LET line == strip(Head(lines))
         IN  (IF line = <<>> THEN <<>>
              ELSE IF ~startswith_http(line) THEN << <<base_url>> \o line >>
              ELSE <<line>>)
             \o read_lines(Tail(lines))

ScLines ==
    { <<"\n">>, <<" ", "\n">>, <<"http://a", "\n">>, <<" ", "https://b", " ", "\n">>,
      <<"123", "\n">> }

\* An element that soup.find may not find is a tuple of at most one text.
text_or(element, placeholder) == IF element = <<>> THEN placeholder ELSE element[1]

\* lines 70-98: one comment
comment_data(comment) ==
    [author   |-> text_or(comment.author, "author_unknown"),
     date     |-> text_or(comment.date, "date_unknown"),
     accepted |-> IF comment.comm_accepted THEN "Yes"
                  ELSE IF comment.dell_accepted THEN "Yes-Dell"
                  ELSE "No",
     body     |-> text_or(comment.body, "no_body")]

scrape_dell_community(url, resp) ==
    IF resp.net # "ok"
    THEN [url |-> url, error |-> resp.net]                    \* lines 113-114
    ELSE LET page == resp.page
         IN  [url |-> url,
              title |-> text_or(page.title, "title_not_found"),
              question_author |->
                  IF page.author_container # <<>> /\ page.author_container[1] # <<>>
                  THEN page.author_container[1][1]
                  ELSE "author_not_found",
              page_views |->
                  IF page.view_container # <<>>
                  THEN text_or(page.view_container[1], "views_not_found")
                  ELSE "views_not_found",
              solved |-> IF page.solved THEN "Yes" ELSE "No",
              init_body |-> text_or(page.init_body, "body_not_found"),
              comments |-> [i \in 1..Len(page.comments) |-> comment_data(page.comments[i])]]

PageMin ==
    [title |-> <<>>, author_container |-> <<>>, view_container |-> << <<>> >>,
     solved |-> FALSE, init_body |-> <<>>, comments |-> <<>>]
PageFull ==
    [title |-> <<"T">>, author_container |-> << <<"alice">> >>,
     view_container |-> << <<"12 views">> >>, solved |-> TRUE, init_body |-> <<"Q">>,
     comments |-> << [author |-> <<"bob">>, date |-> <<"d1">>, comm_accepted |-> TRUE,
                      dell_accepted |-> TRUE, body |-> <<"R1">>],
                     [author |-> <<>>, date |-> <<>>, comm_accepted |-> FALSE,
                      dell_accepted |-> TRUE, body |-> <<>>] >>]

ScResponses ==
    {[net |-> n, page |-> PageMin] : n \in {"timeout", "http404"}}
    \cup {[net |-> "ok", page |-> pg] : pg \in {PageMin, PageFull}}

\* all_data.append(data) without the records of failed fetches
collect_unless_error(data, record) ==
    IF "error" \in DOMAIN record THEN data ELSE Append(data, record)

\* line 143
collect(data, record) == Append(data, record)

ScReset ==
    /\ sc_lines' = <<>>
    /\ sc_queue' = <<>>
    /\ sc_resps' = <<>>
    /\ sc_all_data' = <<>>

\* main, lines 122-138: arguments and the URL list.  A run reads nothing an
\* earlier run wrote, so a behaviour holds one run.
ScStart ==
    /\ tool = "scraping"
    /\ pc = "idle"
    /\ \E a \in Argvs, lines \in BoundedSeq(ScLines, MaxLines) :
        /\ argv' = a
        /\ \/ /\ Len(a) < 1
              /\ Exit(1, "usage")
              /\ ScReset
           \/ /\ Len(a) >= 1 /\ a[1] = "absent"      \* lines 170-171
              /\ Exit(0, "not_found")
              /\ ScReset
           \/ /\ Len(a) >= 1 /\ a[1] # "absent"
              /\ sc_lines' = lines
              /\ sc_queue' = read_lines(lines)
              /\ sc_resps' = <<>>
              /\ sc_all_data' = <<>>
              /\ pc' = "fetch"
              /\ printed' = "none"
              /\ UNCHANGED exit_code
    /\ UNCHANGED <<tool, sc_out, pvVars, svVars, prVars, clVars>>

\* one turn of the loop of lines 141-158
ScFetch ==
    /\ tool = "scraping"
    /\ pc = "fetch"
    /\ sc_queue # <<>>
    /\ \E resp \in ScResponses :
        LET data == scrape_dell_community(Head(sc_queue), resp)
        IN  /\ sc_all_data' = collect(sc_all_data, data)
            /\ sc_resps' = Append(sc_resps, resp)
            /\ printed' = IF "error" \in DOMAIN data THEN "error_record" ELSE "record"
    /\ sc_queue' = Tail(sc_queue)
    /\ UNCHANGED <<tool, pc, argv, exit_code, sc_lines, sc_out, pvVars, svVars, prVars,
                   clVars>>

\* lines 160-168, and 172-173 when the write raises
ScWrite ==
    /\ tool = "scraping"
    /\ pc = "fetch"
    /\ sc_queue = <<>>
    /\ \/ /\ sc_out' = [written |-> TRUE, data |-> sc_all_data]
          /\ Exit(0, "saved")
       \/ /\ UNCHANGED sc_out
          /\ Exit(0, "error")
    /\ UNCHANGED <<tool, argv, sc_lines, sc_queue, sc_resps, sc_all_data, pvVars, svVars,
                   prVars, clVars>>

NoOutput == [written |-> FALSE, data |-> <<>>]

\* ---- scrape_title_and_views applied to one response
SvApply ==
    /\ sv_pc = "idle"
    /\ sv_data' = scrape_title_and_views(URL1, sv_resp)
    /\ sv_pc' = "done"
    /\ UNCHANGED <<sv_resp, procVars, pvVars, prVars, scVars, clVars>>

\* ===================================================================
\* Initial states and specifications
\* ===================================================================
ProcInit(t) ==
    /\ tool = t
    /\ pc = "idle"
    /\ argv = <<>>
    /\ exit_code = 0
    /\ printed = "none"

PvIdle ==
    /\ pv_runs = 0
    /\ urls = {}
    /\ load_kind = "none"
    /\ loaded = EmptyDF
    /\ df = EmptyDF
    /\ timestamp_col = <<>>
    /\ queue = <<>>
    /\ scraped = <<>>
    /\ wrote = FALSE

SvIdle ==
    /\ sv_resp = FailedResponse("timeout")
    /\ sv_data = None
    /\ sv_pc = "idle"

PrIdle ==
    /\ dated = <<>>
    /\ processed_items = <<>>
    /\ new_items_count = 0
    /\ appended = 0

ScIdle ==
    /\ sc_lines = <<>>
    /\ sc_queue = <<>>
    /\ sc_resps = <<>>
    /\ sc_all_data = <<>>
    /\ sc_out = NoOutput

ClIdle ==
    /\ cl_text = <<>>
    /\ cl_category = "none"
    /\ cl_pc = "idle"

InitPageview ==
    /\ ProcInit("create_pageview_report")
    /\ tsv \in InitFiles
    /\ PvIdle
    /\ SvIdle
    /\ PrIdle
    /\ ScIdle
    /\ archive = Archive("missing", <<>>)
    /\ ClIdle

NextPageview == PvStart \/ PvScrape \/ PvFinish

SpecPageview == InitPageview /\ [][NextPageview]_vars

InitScrapeFn ==
    /\ ProcInit("create_pageview_report")
    /\ tsv = File("missing", EmptyDF)
    /\ PvIdle
    /\ sv_resp \in Responses
    /\ sv_data = None
    /\ sv_pc = "idle"
    /\ PrIdle
    /\ ScIdle
    /\ archive = Archive("missing", <<>>)
    /\ ClIdle

SpecScrapeFn == InitScrapeFn /\ [][SvApply]_vars

InitProcess ==
    /\ ProcInit("process_dcf_json")
    /\ tsv = File("missing", EmptyDF)
    /\ PvIdle
    /\ SvIdle
    /\ PrIdle
    /\ ScIdle
    /\ archive \in InitArchives
    /\ ClIdle

SpecProcess == InitProcess /\ [][PrRun]_vars

InitClassify ==
    /\ ProcInit("process_dcf_json")
    /\ tsv = File("missing", EmptyDF)
    /\ PvIdle
    /\ SvIdle
    /\ PrIdle
    /\ ScIdle
    /\ archive = Archive("missing", <<>>)
    /\ cl_text \in BoundedSeq(Words, MaxTokens)
    /\ cl_category = "none"
    /\ cl_pc = "idle"

SpecClassify == InitClassify /\ [][ClApply]_vars

InitScraping ==
    /\ ProcInit("scraping")
    /\ tsv = File("missing", EmptyDF)
    /\ PvIdle
    /\ SvIdle
    /\ PrIdle
    /\ ScIdle
    /\ archive = Archive("missing", <<>>)
    /\ ClIdle

NextScraping == ScStart \/ ScFetch \/ ScWrite

SpecScraping == InitScraping /\ [][NextScraping]_vars

\* the three tools, each from any persisted state
Init == InitPageview \/ InitScraping \/ InitProcess

Next == NextPageview \/ NextScraping \/ PrRun

Spec == Init /\ [][Next]_vars

\* ===================================================================
\* Properties of create_pageview_report.py
\* ===================================================================
Succeeded == {u \in DOMAIN scraped : scraped[u].ok}
Failed == {u \in DOMAIN scraped : ~scraped[u].ok}
RunWrote == pc = "exited" /\ wrote
\* the timestamp columns just before column pruning
PreCols == loaded.cols \cup (IF Succeeded # {} THEN {timestamp_col} ELSE {})
Min(a, b) == IF a <= b THEN a ELSE b

C2_HistoryPreserved ==
    RunWrote =>
        \A u \in loaded.urls \cap tsv.table.urls, c \in loaded.cols \cap tsv.table.cols :
            loaded.cell[u][c] # NaN => tsv.table.cell[u][c] = loaded.cell[u][c]

\* C3: no row of the written table has all of its timestamp columns null.
C3_NoRowWithoutHistory ==
    RunWrote =>
        \A u \in tsv.table.urls : \E c \in tsv.table.cols : tsv.table.cell[u][c] # NaN

\* C4: a failed scrape of u stops nothing and writes nothing for u: the URLs
\* are taken in sorted order until none is left, an unseen u gets no row, an
\* existing row of u keeps its title and its values (a capture column that
\* is new stays null for u); every URL scraped with success has its title
\* and its view count in the capture column.
C4_FailureIsolation ==
    pc = "scrape" =>
        /\ sorted(urls) = sorted(DOMAIN scraped) \o queue
        /\ \A u \in Failed :
            /\ u \notin loaded.urls => u \notin df.urls
            /\ u \in loaded.urls =>
                /\ u \in df.urls
                /\ df.title[u] = loaded.title[u]
                /\ \A c \in loaded.cols : df.cell[u][c] = loaded.cell[u][c]
                /\ \A c \in df.cols \ loaded.cols : df.cell[u][c] = NaN
        /\ \A u \in Succeeded :
            /\ u \in df.urls
            /\ timestamp_col \in df.cols
            /\ df.title[u] = scraped[u].title
            /\ df.cell[u][timestamp_col] = scraped[u].views

\* the first URL failed, it has a row with a value, the second succeeded
C4_Witness ==
    /\ pc = "scrape"
    /\ queue = <<>>
    /\ URL1 \in Failed
    /\ URL2 \in Succeeded
    /\ URL1 \in loaded.urls
    /\ \E c \in loaded.cols : loaded.cell[URL1][c] # NaN
    /\ timestamp_col \notin loaded.cols

\* C9: with the persisted table missing, empty or corrupt the run does not
\* fail: it starts from the empty table and goes on to the write.
C9_LoadTolerant ==
    (pc = "exited" /\ load_kind \in {"missing", "empty", "malformed", "nourl"}) =>
        /\ exit_code = 0
        /\ printed \in {"saved", "write_error"}
        /\ loaded = EmptyDF
        /\ wrote => tsv.table.urls = Succeeded

\* C10: a page fetched with success gives a result, whose views is the
\* integer of the digits of the view-count text, 0 when there is none.
C10_ViewCount ==
    (sv_pc = "done" /\ sv_resp.net = "ok") =>
        LET digits == IF sv_resp.has_container /\ sv_resp.has_element
                      THEN SelectSeq(sv_resp.view_text, isdigit)
                      ELSE <<>>
        IN  /\ sv_data.ok
            /\ digits = <<>> => sv_data.views = 0
            /\ digits # <<>> => sv_data.views = int(digits)

\* ===================================================================
\* Properties of process_dcf_json.py
\* ===================================================================
\* a.get(k) == b.get(k)
same_get(a, b, k) ==
    \/ k \notin DOMAIN a /\ k \notin DOMAIN b
    \/ k \in DOMAIN a /\ k \in DOMAIN b /\ a[k] = b[k]

\* C5: no two of the records the runs appended to the archive have equal
\* (url, title) pairs, and a run that brings only records already appended
\* adds nothing.
C5_ArchiveDedup ==
    archive.kind = "list" =>
        LET n == Len(archive.data)
        IN  \A i, j \in (n - appended + 1)..n :
                i < j => ~ ( /\ same_get(archive.data[i], archive.data[j], "url")
                             /\ same_get(archive.data[i], archive.data[j], "title") )

\* C6: "Operations" when the four counts are zero, otherwise the first
\* category, in the order Specifications, Configurations, Operations,
\* Break&Fix, whose count is the greatest.
C6_ClassifierRule ==
    cl_pc = "done" =>
        LET n == scores_of(cl_text)
        IN  IF \A i \in 1..Len(Categories) : n[Categories[i]] = 0
            THEN cl_category = "Operations"
            ELSE \E i \in 1..Len(Categories) :
                    /\ cl_category = Categories[i]
                    /\ \A j \in 1..Len(Categories) : n[Categories[j]] <= n[Categories[i]]
                    /\ \A j \in 1..(i - 1) : n[Categories[j]] < n[Categories[i]]

\* one Configurations keyword and one Operations keyword: Configurations
C6_Witness ==
    /\ cl_pc = "done"
    /\ scores_of(cl_text) = [c \in Range(Categories) |->
                                IF c \in {"Configurations", "Operations"} THEN 1 ELSE 0]
    /\ cl_category = "Configurations"


\* ===================================================================
\* Properties of scraping.py
\* ===================================================================
NonBlank(lines) == SelectSeq(lines, LAMBDA l : \E i \in 1..Len(l) : l[i] \notin Whitespace)
ThreadKeys == {"url", "title", "question_author", "page_views", "solved", "init_body",
               "comments"}

\* C7: the array written has one entry per non-blank input line, in input
\* order; the entry of a URL whose fetch failed is {url, error} with that
\* URL, every other entry is a full thread record of its URL and its page.
C7_BatchIsolation ==
    (tool = "scraping" /\ pc = "exited" /\ printed = "saved") =>
        LET given == NonBlank(sc_lines)
            out == sc_out.data
        IN  /\ sc_out.written
            /\ Len(out) = Len(given)
            /\ Len(sc_resps) = Len(given)
            /\ \A i \in 1..Len(out) :
                /\ \E k \in 1..Len(given[i]) :
                      /\ given[i][k] \notin Whitespace
                      /\ out[i].url = IF given[i][k] \in HttpWords THEN <<given[i][k]>>
                                      ELSE <<base_url, given[i][k]>>
                /\ sc_resps[i].net # "ok" => DOMAIN out[i] = {"url", "error"}
                /\ sc_resps[i].net = "ok" =>
                      /\ DOMAIN out[i] = ThreadKeys
                      /\ out[i].solved = (IF sc_resps[i].page.solved THEN "Yes" ELSE "No")
                      /\ Len(out[i].comments) = Len(sc_resps[i].page.comments)

\* three URLs, the fetch of the second fails, the other two give records
C7_Witness ==
    /\ tool = "scraping" /\ pc = "exited" /\ printed = "saved"
    /\ Len(sc_resps) = 3
    /\ sc_resps[1].net = "ok" /\ sc_resps[2].net = "timeout" /\ sc_resps[3].net = "ok"
    /\ Len(sc_out.data) = 3
    /\ "error" \in DOMAIN sc_out.data[2]
    /\ DOMAIN sc_out.data[1] = ThreadKeys /\ DOMAIN sc_out.data[3] = ThreadKeys

\* ===================================================================
\* Property of the three command lines
\* ===================================================================
\* C8: without the input-file argument a tool prints its usage and ends
\* with a non-zero status; with an input file that does not exist it prints
\* a message and ends with a non-zero status.
C8_ExitStatus ==
    pc = "exited" =>
        /\ argv = <<>> => (printed = "usage" /\ exit_code # 0)
        /\ argv = <<"absent">> => (printed = "not_found" /\ exit_code # 0)

====
